---- MODULE Spec2Model ----
(***************************************************************************)
(* Model of the `osdctl analyze org` command: the organization / cluster / *)
(* alert statistics aggregator (OrganizationStatsList), its TopOrgs query, *)
(* and the command's RunE -> Analyze -> Summarize flow over a CSV report;  *)
(* and of the `osdctl promote saas` command: servicePromotion, getSaasDir  *)
(* and UpdateAndCommitChangesForAppInterface.                              *)
(***************************************************************************)
EXTENDS Integers, Sequences, FiniteSets, TLC

\* ---------------------------------------------------------------- bounds
\* number of AddStatistic calls made directly on the aggregator (SpecStats)
MaxAdds == 4
\* number of report entries (rows after the header) read by Analyze (Spec)
MaxEntries == 2
\* largest TotalEntries given to an analyzer whose counters are set directly
\* (SpecQuery)
MaxTotal == 5

\* ------------------------------------------------------- input universes
\* organizations OCM can return (accountsmgmtv1.Organization: ID, Name)
Organizations ==
    { [id |-> "o1", name |-> "acme"],
      [id |-> "o2", name |-> "beta"],
      [id |-> "o3", name |-> "acme-eu"] }

\* clusters OCM can return (clustersmgmtv1.Cluster: ID, Name)
ClusterSet ==
    { [id |-> "c1", name |-> "prod"],
      [id |-> "c2", name |-> "stage"] }

\* alert names found in column 6 of the report
AlertNames == {"AlertFoo", "AlertBar"}

\* values given to TopOrgs / the --number flag (5 is the flag's default)
NumOrgsValues == {-1, 0, 1, 2, 3, 5}

\* values of --number the command is started with
NumberFlagValues == {0, 2}

\* ------------------------------------------------------------ Go maps
\* map[string]T is a function whose DOMAIN is the set of keys present
EmptyMap == [k \in {} |-> 0]

\* m[k] = v
MapPut(m, k, v) == [x \in DOMAIN m \cup {k} |-> IF x = k THEN v ELSE m[x]]

\* ------------------------------------------------------------ ClusterStats
NewClusterStats(cluster) ==
    [Cluster |-> cluster, TotalAlerts |-> 0, Alerts |-> EmptyMap]

\* variant: the `return` after initialising a new alert's count is missing,
\* so the increment below it runs as well
ClusterStatsAddStatisticNoReturn(c, alertName) ==
    LET found == alertName \in DOMAIN c.Alerts
        total == c.TotalAlerts + 1
    IN  IF ~found
        THEN [c EXCEPT !.TotalAlerts = total,
                       !.Alerts = MapPut(c.Alerts, alertName, 2)]
        ELSE [c EXCEPT !.TotalAlerts = total,
                       !.Alerts = MapPut(c.Alerts, alertName, c.Alerts[alertName] + 1)]

ClusterStatsAddStatistic(c, alertName) ==
    LET found == alertName \in DOMAIN c.Alerts
        total == c.TotalAlerts + 1
    IN  IF ~found
        THEN [c EXCEPT !.TotalAlerts = total,
                       !.Alerts = MapPut(c.Alerts, alertName, 1)]
        ELSE [c EXCEPT !.TotalAlerts = total,
                       !.Alerts = MapPut(c.Alerts, alertName, c.Alerts[alertName] + 1)]

\* ------------------------------------------------------- OrganizationStats
NewOrganizationStats(org) ==
    [Organization |-> org, TotalAlerts |-> 0, Clusters |-> EmptyMap]

\* variant: a cluster seen for the first time replaces the Clusters map
\* instead of being inserted into it, so what is kept depends on the order
OrganizationStatsAddStatisticReset(o, cluster, alert) ==
    LET total == o.TotalAlerts + 1
        found == cluster.id \in DOMAIN o.Clusters
        clusterStats == IF found THEN o.Clusters[cluster.id]
                                 ELSE NewClusterStats(cluster)
    IN  [o EXCEPT !.TotalAlerts = total,
                  !.Clusters = MapPut(IF found THEN o.Clusters ELSE EmptyMap,
                                      cluster.id,
                                      ClusterStatsAddStatistic(clusterStats, alert))]

\* variant: the organization's total is only counted for a new cluster
OrganizationStatsAddStatisticNewOnly(o, cluster, alert) ==
    LET found == cluster.id \in DOMAIN o.Clusters
        total == IF found THEN o.TotalAlerts ELSE o.TotalAlerts + 1
        clusterStats == IF found THEN o.Clusters[cluster.id]
                                 ELSE NewClusterStats(cluster)
    IN  [o EXCEPT !.TotalAlerts = total,
                  !.Clusters = MapPut(o.Clusters, cluster.id,
                                      ClusterStatsAddStatistic(clusterStats, alert))]

OrganizationStatsAddStatistic(o, cluster, alert) ==
    LET total == o.TotalAlerts + 1
        found == cluster.id \in DOMAIN o.Clusters
        clusterStats == IF found THEN o.Clusters[cluster.id]
                                 ELSE NewClusterStats(cluster)
    IN  [o EXCEPT !.TotalAlerts = total,
                  !.Clusters = MapPut(o.Clusters, cluster.id,
                                      ClusterStatsAddStatistic(clusterStats, alert))]

\* --------------------------------------------------- OrganizationStatsList
NewOrganizationStatsList == EmptyMap

\* variant: the updated copy is not stored back (o.Items[org.ID()] = orgStats
\* is missing): a new organization is lost, and an existing one keeps its old
\* total while its Clusters map, shared with the copy, is updated
AddStatisticNoStore(items, org, cluster, alert) ==
    LET found == org.id \in DOMAIN items
    IN  IF found
        THEN MapPut(items, org.id,
                    [items[org.id] EXCEPT !.Clusters =
                        OrganizationStatsAddStatistic(items[org.id], cluster, alert).Clusters])
        ELSE items

\* OrganizationStatsList.AddStatistic: the new value of Items
AddStatistic(items, org, cluster, alert) ==
    LET found == org.id \in DOMAIN items
        orgStats == IF found THEN items[org.id] ELSE NewOrganizationStats(org)
    IN  MapPut(items, org.id, OrganizationStatsAddStatistic(orgStats, cluster, alert))

\* the sequences over the values of map m that list every key exactly once:
\* the orders in which `for _, orgStats := range o.Items` can append
RangeOrders(m) ==
    LET n == Cardinality(DOMAIN m)
        keySeqs == { ks \in [1..n -> DOMAIN m] :
                        \A i, j \in 1..n : i # j => ks[i] # ks[j] }
    IN  { [i \in 1..n |-> m[ks[i]]] : ks \in keySeqs }

\* less function handed to sort.Slice
Less(a, b) == a.TotalAlerts < b.TotalAlerts

\* sort.Slice is not stable: it may leave any arrangement in which no element
\* is Less than an earlier one
SortSlice(m) ==
    { s \in RangeOrders(m) :
        \A i, j \in 1..Len(s) : i < j => ~Less(s[j], s[i]) }

\* variant: the first numOrgs elements of the ascending slice are returned
TopOrgsFirst(stats, numOrgs) ==
    IF numOrgs <= 0 \/ numOrgs > Len(stats)
    THEN stats
    ELSE SubSeq(stats, 1, numOrgs)

\* variant: only a negative numOrgs asks for every organization
TopOrgsNegative(stats, numOrgs) ==
    IF numOrgs < 0 \/ numOrgs > Len(stats)
    THEN stats
    ELSE SubSeq(stats, Len(stats) - numOrgs + 1, Len(stats))

\* OrganizationStatsList.TopOrgs, given the sorted slice `stats`
TopOrgs(stats, numOrgs) ==
    IF numOrgs <= 0 \/ numOrgs > Len(stats)
    THEN stats
    ELSE SubSeq(stats, Len(stats) - numOrgs + 1, Len(stats))

\* ------------------------------------------------------------ percentages
\* a float32 is NaN, +Inf, or m * 2^e with m = 0 or 2^23 <= m < 2^24; the
\* operands of the percentages are counters, never negative
RECURSIVE Pow2(_)
Pow2(n) == IF n = 0 THEN 1 ELSE 2 * Pow2(n - 1)

\* a float32 keeps 24 significant bits
MantissaMin == Pow2(23)
MantissaMax == Pow2(24)

Float32NaN == [nan |-> TRUE, inf |-> FALSE, m |-> 0, e |-> 0]
Float32Inf == [nan |-> FALSE, inf |-> TRUE, m |-> 0, e |-> 0]
Float32Zero == [nan |-> FALSE, inf |-> FALSE, m |-> 0, e |-> 0]

\* num / den rounded to the nearest integer, ties to the even one
RoundHalfEven(num, den) ==
    LET q == num \div den
        r == num % den
    IN  IF 2 * r > den \/ (2 * r = den /\ q % 2 = 1) THEN q + 1 ELSE q

\* m * 2^e, where rounding may have carried m up to 2^24
Float32Normal(m, e) ==
    IF m = MantissaMax
    THEN [nan |-> FALSE, inf |-> FALSE, m |-> MantissaMin, e |-> e + 1]
    ELSE [nan |-> FALSE, inf |-> FALSE, m |-> m, e |-> e]

\* float32(a) / float32(b) for counters a, b: the quotient rounded to 24 bits
Float32Quo(a, b) ==
    IF b = 0 THEN (IF a = 0 THEN Float32NaN ELSE Float32Inf)
    ELSE IF a = 0 THEN Float32Zero
    ELSE LET k == CHOOSE k \in 0..30 :
                    /\ MantissaMin * b <= a * Pow2(k)
                    /\ a * Pow2(k) < MantissaMax * b
         IN  Float32Normal(RoundHalfEven(a * Pow2(k), b), 0 - k)

\* f * n for a positive integer literal n: the product rounded to 24 bits
Float32Mul(f, n) ==
    IF f.nan \/ f.inf \/ f.m = 0 THEN f
    ELSE LET p == f.m * n
             s == CHOOSE s \in 0..7 :
                    /\ MantissaMin <= p \div Pow2(s)
                    /\ p \div Pow2(s) < MantissaMax
         IN  Float32Normal(RoundHalfEven(p, Pow2(s)), f.e + s)

\* variant: the percentage is computed as float32(a * 100) / float32(b)
PercentageMultiplyFirst(a, b) == Float32Quo(a * 100, b)

\* (float32(a) / float32(b)) * 100
Percentage(a, b) == Float32Mul(Float32Quo(a, b), 100)

\* f > n/d for a literal n/d, which the compiler rounds to float32 (any
\* comparison with NaN is false)
FloatGreater(f, n, d) ==
    LET c == Float32Quo(n, d)
    IN  /\ ~f.nan
        /\ \/ f.inf
           \/ /\ f.m # 0
              /\ c.m = 0 \/ f.e > c.e \/ (f.e = c.e /\ f.m > c.m)

\* ---------------------------------------------------------------- flags
ValidOutputs == {"yaml", "json", "short", "long"}
OutputValues == ValidOutputs \cup {"xml"}

\* variant: the switch has no default case
validateAnalyzerNoDefault(output) == FALSE

\* validateAnalyzer: TRUE when it returns an error
validateAnalyzer(output) ==
    CASE output = "yaml"  -> FALSE
      [] output = "json"  -> FALSE
      [] output = "short" -> FALSE
      [] output = "long"  -> FALSE
      [] OTHER            -> TRUE

\* --search values: "" is unset, "(" does not compile
SearchPatterns == {"", "acme", "^o2$", "zzz", "("}

\* the strings each compilable pattern matches, among the names and IDs of
\* Organizations (RE2 semantics: unanchored unless ^...$)
Matching(pattern) ==
    CASE pattern = "acme" -> {"acme", "acme-eu"}
      [] pattern = "^o2$" -> {"o2"}
      [] OTHER            -> {}

\* regexp.MatchString(pattern, s)
MatchString(pattern, s) ==
    IF pattern = "("
    THEN [matched |-> FALSE, err |-> TRUE]
    ELSE [matched |-> (s \in Matching(pattern)), err |-> FALSE]

\* ------------------------------------------------------------ the report
\* zero-based positions of the cluster ID and the alert in a report entry
ClusterIDIndex == 5
AlertIndex == 6

\* a line of the report file: its fields, and whether its quoting is broken
Line(n, clusterID, alert, bad) ==
    [eof |-> FALSE, bad |-> bad,
     fields |-> [i \in 1..n |-> IF i = ClusterIDIndex + 1 THEN clusterID
                                ELSE IF i = AlertIndex + 1 THEN alert
                                ELSE "x"]]

EOFLine == [eof |-> TRUE, bad |-> FALSE, fields |-> <<>>]

\* numbers of columns a line can have: too few for parseEntry, or enough
FieldCounts == {3, 7}

HeaderLines ==
    { Line(n, "Cluster ID", "Alert", bad) : n \in FieldCounts, bad \in BOOLEAN }
        \cup {EOFLine}

EntryLines ==
    { Line(n, "k1", a, FALSE) : n \in FieldCounts, a \in AlertNames }
        \cup { Line(7, "k1", "AlertFoo", TRUE) }

\* csv.Reader.Read with the reader's FieldsPerRecord = fpr (0: not yet set):
\* the first record fixes the number of fields every later record must have
CsvRead(fpr, line) ==
    IF line.eof
    THEN [record |-> <<>>, err |-> "EOF", fpr |-> fpr]
    ELSE LET n == Len(line.fields)
         IN  [record |-> line.fields,
              err |-> IF line.bad THEN "ParseError"
                      ELSE IF fpr > 0 /\ n # fpr THEN "ErrFieldCount"
                      ELSE "nil",
              fpr |-> IF fpr = 0 THEN n ELSE fpr]

\* entry[i] panics (index out of range) when the entry has no position i
IndexOutOfRange(entry, i) == i >= Len(entry)

\* OrgAnalyzer.parseEntry
parseEntry(entry) ==
    [clusterID |-> entry[ClusterIDIndex + 1], alert |-> entry[AlertIndex + 1]]

\* ------------------------------------------------------ identity resolver
NoCluster == [id |-> "", name |-> ""]
NoOrg == [id |-> "", name |-> ""]

\* what utils.GetCluster, GetOrgIDFromCluster and GetOrgFromID answer for one
\* entry: the first call that fails, or the cluster and its organization
LookupErrors == {"GetCluster", "GetOrgIDFromCluster", "GetOrgFromID"}

\* the clusters OCM knows, and the organization each one belongs to: the
\* resolver answers with the cluster and its one owning organization
OCMClusters == ClusterSet \cup { [id |-> "c3", name |-> "dev"] }

Owner(cluster) ==
    CHOOSE o \in Organizations :
        o.id = (IF cluster.id = "c3" THEN "o2" ELSE "o1")

LookupOutcomes ==
    { [err |-> e, cluster |-> NoCluster, org |-> NoOrg] : e \in LookupErrors }
        \cup { [err |-> "nil", cluster |-> c, org |-> Owner(c)] :
                 c \in OCMClusters }

NoLookup == [err |-> "none", cluster |-> NoCluster, org |-> NoOrg]
NoEntry == [record |-> <<>>, err |-> "none", fpr |-> 0]
NoCall == [op |-> "none"]

\* ------------------------------------------------------------------ state
VARIABLES
    Items,            \* OrganizationStatsList.Items: org ID -> OrganizationStats
    TotalEntries,     \* OrgAnalyzer.TotalEntries
    SkippedEntries,   \* OrgAnalyzer.SkippedEntries
    Output,           \* --output
    NumOrgs,          \* --number
    SearchRegex,      \* --search
    pc,               \* where the command is: start, analyze, loop, summarize,
                      \* done, error, panic; "lib" or "query" when the analyzer
                      \* is driven directly through its methods; "idle"
    FieldsPerRecord,  \* the csv.Reader's expected number of fields
    entry,            \* result of the latest report.Read()
    lookup,           \* what OCM answered for the latest entry
    call,             \* the latest call made on the analyzer (AddStatistic,
                      \* TopOrgs, Calculate*), with the value a Calculate*
                      \* call returned
    adds,             \* number of AddStatistic calls made so far
    topOrgs,          \* slice returned by the latest TopOrgs call
    errLines,         \* number of messages written with Errorln
    warned,           \* the high-skip-percentage warning was printed
    retErr,           \* error returned by RunE ("nil": none)
    ingested,         \* history: how often each (org, cluster, alert) was
                      \* passed to AddStatistic
    discarded,        \* history: entries dropped by the --search filter
    ops,              \* saasOptions: the flags of `promote saas`
    files,            \* the saas-* entries of the app-interface checkout
    ppc,              \* where the promote code is ("idle": not running)
    saasDir,          \* what getSaasDir returned
    promoteErr,       \* error returned by servicePromotion or, when it is
                      \* called on its own, by validateServiceName
    updateErr,        \* error returned by UpdateAndCommitChangesForAppInterface
    exitCode,         \* status given to os.Exit (-1: the process runs)
    currentGitHash,   \* hash found in the saas file
    promotionGitHash, \* hash to promote to
    fileContent,      \* content of the saas file on disk
    original,         \* history: content of the saas file at the start
    gitSteps,         \* history: steps UpdateAndCommitChangesForAppInterface
                      \* has executed, the failed one included
    committed         \* content of the saas file in the promotion commit

analyzeVars == <<Items, TotalEntries, SkippedEntries, Output, NumOrgs,
                 SearchRegex, pc, FieldsPerRecord, entry, lookup, call, adds,
                 topOrgs, errLines, warned, retErr, ingested, discarded>>

promoteVars == <<ops, files, ppc, saasDir, promoteErr, updateErr, exitCode,
                 currentGitHash, promotionGitHash, fileContent, original,
                 gitSteps, committed>>

vars == <<analyzeVars, promoteVars>>

flags == <<Output, NumOrgs, SearchRegex>>

\* NewOrgAnalyzer, before the flags are parsed
NewOrgAnalyzer ==
    /\ Items = NewOrganizationStatsList
    /\ TotalEntries = 0
    /\ SkippedEntries = 0
    /\ FieldsPerRecord = 0
    /\ entry = NoEntry
    /\ lookup = NoLookup
    /\ call = NoCall
    /\ adds = 0
    /\ topOrgs = <<>>
    /\ errLines = 0
    /\ warned = FALSE
    /\ retErr = "nil"
    /\ ingested = EmptyMap
    /\ discarded = 0

\* the promote code is not running
NoSaasDir == [path |-> <<>>, err |-> "none"]

NoPromotion ==
    /\ ops = [list |-> FALSE, osd |-> FALSE, hcp |-> FALSE,
              serviceName |-> <<>>, gitHash |-> ""]
    /\ files = {}
    /\ ppc = "idle"
    /\ saasDir = NoSaasDir
    /\ promoteErr = "none"
    /\ updateErr = "none"
    /\ exitCode = -1
    /\ currentGitHash = ""
    /\ promotionGitHash = ""
    /\ fileContent = <<>>
    /\ original = <<>>
    /\ gitSteps = <<>>
    /\ committed = <<>>

\* m[k]++ for a counting map
MapIncrement(m, k) == MapPut(m, k, IF k \in DOMAIN m THEN m[k] + 1 ELSE 1)

\* the command, started with any flag values
Init ==
    /\ NewOrgAnalyzer
    /\ NoPromotion
    /\ Output \in OutputValues
    /\ NumOrgs \in NumberFlagValues
    /\ SearchRegex \in SearchPatterns
    /\ pc = "start"

\* ------------------------------------------------------------ the command
\* RunE up to the call of Analyze
RunE ==
    /\ pc = "start"
    /\ IF validateAnalyzer(Output)
       THEN /\ pc' = "error"
            /\ retErr' = "invalid argument provided"
       ELSE /\ pc' = "analyze"
            /\ retErr' = retErr
    /\ UNCHANGED <<Items, TotalEntries, SkippedEntries, flags, FieldsPerRecord,
                   entry, lookup, call, adds, topOrgs, errLines, warned,
                   ingested, discarded, promoteVars>>

\* Analyze up to its loop: open the report, connect to OCM, skip the header
AnalyzeStart ==
    /\ pc = "analyze"
    /\ \E opened \in BOOLEAN, connected \in BOOLEAN, line \in HeaderLines :
         IF ~opened \/ ~connected
         THEN /\ pc' = "error"
              /\ retErr' = "encountered unrecoverable error while analyzing file"
              /\ UNCHANGED <<FieldsPerRecord, entry, errLines>>
         ELSE LET rd == CsvRead(FieldsPerRecord, line)
              IN  /\ pc' = "loop"
                  /\ retErr' = retErr
                  /\ FieldsPerRecord' = rd.fpr
                  /\ entry' = rd
                  /\ errLines' = IF rd.err # "nil" THEN errLines + 1 ELSE errLines
    /\ UNCHANGED <<Items, TotalEntries, SkippedEntries, flags, lookup, call,
                   adds, topOrgs, warned, ingested, discarded, promoteVars>>

\* variant: TotalEntries++ comes after the error checks, so a skipped entry is
\* not counted in TotalEntries
SkipUncounted(total, res) ==
    [pc |-> "loop", TotalEntries |-> TotalEntries,
     SkippedEntries |-> SkippedEntries + 1, Items |-> Items,
     errLines |-> errLines + 1, call |-> NoCall, lookup |-> res,
     discarded |-> discarded]

\* the outcomes of one iteration of Analyze's loop: report and skip the entry,
\* drop it silently, or add it to the statistics
Skip(total, res) ==
    [pc |-> "loop", TotalEntries |-> total, SkippedEntries |-> SkippedEntries + 1,
     Items |-> Items, errLines |-> errLines + 1, call |-> NoCall, lookup |-> res,
     discarded |-> discarded]

Discard(total, res) ==
    [pc |-> "loop", TotalEntries |-> total, SkippedEntries |-> SkippedEntries,
     Items |-> Items, errLines |-> errLines, call |-> NoCall, lookup |-> res,
     discarded |-> discarded + 1]

\* variant: the statistic is filed under the organization of the previous entry
AddPreviousOrg(total, res, alert) ==
    [pc |-> "loop", TotalEntries |-> total, SkippedEntries |-> SkippedEntries,
     Items |-> AddStatistic(Items, lookup.org, res.cluster, alert),
     errLines |-> errLines,
     call |-> [op |-> "AddStatistic", org |-> lookup.org,
               cluster |-> res.cluster, alert |-> alert],
     lookup |-> res, discarded |-> discarded]

Add(total, res, alert) ==
    [pc |-> "loop", TotalEntries |-> total, SkippedEntries |-> SkippedEntries,
     Items |-> AddStatistic(Items, res.org, res.cluster, alert),
     errLines |-> errLines,
     call |-> [op |-> "AddStatistic", org |-> res.org, cluster |-> res.cluster,
               alert |-> alert],
     lookup |-> res, discarded |-> discarded]

\* variant: an organization must match on its name and on its ID
FilterBoth(total, res, alert) ==
    IF SearchRegex # ""
    THEN LET matchName == MatchString(SearchRegex, res.org.name)
             matchID == MatchString(SearchRegex, res.org.id)
         IN  IF matchName.err THEN Skip(total, res)
             ELSE IF matchID.err THEN Skip(total, res)
             ELSE IF ~matchName.matched \/ ~matchID.matched
             THEN Discard(total, res)
             ELSE Add(total, res, alert)
    ELSE Add(total, res, alert)

\* variant: an entry whose organization does not match is counted as skipped
FilterCountsMismatch(total, res, alert) ==
    IF SearchRegex # ""
    THEN LET matchName == MatchString(SearchRegex, res.org.name)
             matchID == MatchString(SearchRegex, res.org.id)
         IN  IF matchName.err THEN Skip(total, res)
             ELSE IF matchID.err THEN Skip(total, res)
             ELSE IF ~matchName.matched /\ ~matchID.matched
             THEN [Discard(total, res) EXCEPT
                      !.SkippedEntries = SkippedEntries + 1]
             ELSE Add(total, res, alert)
    ELSE Add(total, res, alert)

\* the --search filter and the call of AddStatistic, for a resolved entry
Filter(total, res, alert) ==
    IF SearchRegex # ""
    THEN LET matchName == MatchString(SearchRegex, res.org.name)
             matchID == MatchString(SearchRegex, res.org.id)
         IN  IF matchName.err THEN Skip(total, res)
             ELSE IF matchID.err THEN Skip(total, res)
             ELSE IF ~matchName.matched /\ ~matchID.matched
             THEN Discard(total, res)
             ELSE Add(total, res, alert)
    ELSE Add(total, res, alert)

\* variant: a failed GetOrgIDFromCluster is reported but not counted
ResolveUncounted(total, res, alert) ==
    IF res.err = "GetCluster" THEN Skip(total, res)
    ELSE IF res.err = "GetOrgIDFromCluster"
    THEN [Skip(total, res) EXCEPT !.SkippedEntries = SkippedEntries]
    ELSE IF res.err = "GetOrgFromID" THEN Skip(total, res)
    ELSE Filter(total, res, alert)

\* the three OCM lookups for a parsed entry; res is what OCM answers
Resolve(total, res, alert) ==
    IF res.err = "GetCluster" THEN Skip(total, res)
    ELSE IF res.err = "GetOrgIDFromCluster" THEN Skip(total, res)
    ELSE IF res.err = "GetOrgFromID" THEN Skip(total, res)
    ELSE Filter(total, res, alert)

\* one iteration of the loop of Analyze: rd is what report.Read() returned,
\* res what OCM answers if it is asked
LoopBody(rd, res) ==
    IF rd.err = "EOF"
    THEN [pc |-> "summarize", TotalEntries |-> TotalEntries,
          SkippedEntries |-> SkippedEntries, Items |-> Items,
          errLines |-> errLines, call |-> NoCall, lookup |-> NoLookup,
          discarded |-> discarded]
    ELSE LET total == TotalEntries + 1
         IN  IF rd.err # "nil"
             THEN Skip(total, NoLookup)
             ELSE IF IndexOutOfRange(rd.record, AlertIndex)
                     \/ IndexOutOfRange(rd.record, ClusterIDIndex)
             THEN [pc |-> "panic", TotalEntries |-> total,
                   SkippedEntries |-> SkippedEntries, Items |-> Items,
                   errLines |-> errLines, call |-> NoCall, lookup |-> NoLookup,
                   discarded |-> discarded]
             ELSE Resolve(total, res, parseEntry(rd.record).alert)

\* Analyze: read the next entry and process it
AnalyzeEntry ==
    /\ pc = "loop"
    /\ \E line \in EntryLines \cup {EOFLine}, res \in LookupOutcomes :
         /\ ~line.eof => TotalEntries < MaxEntries
         /\ LET rd == CsvRead(FieldsPerRecord, line)
                out == LoopBody(rd, res)
            IN  /\ entry' = rd
                /\ FieldsPerRecord' = rd.fpr
                /\ pc' = out.pc
                /\ TotalEntries' = out.TotalEntries
                /\ SkippedEntries' = out.SkippedEntries
                /\ Items' = out.Items
                /\ errLines' = out.errLines
                /\ call' = out.call
                /\ lookup' = out.lookup
                /\ adds' = IF out.call.op = "AddStatistic" THEN adds + 1 ELSE adds
                /\ ingested' =
                     IF out.call.op = "AddStatistic"
                     THEN MapIncrement(ingested,
                                       <<out.call.org.id, out.call.cluster.id,
                                         out.call.alert>>)
                     ELSE ingested
                /\ discarded' = out.discarded
    /\ UNCHANGED <<flags, topOrgs, warned, retErr, promoteVars>>

\* variant: an analyzer without entries reports 0% skipped
CalculateSkipPercentageGuarded ==
    IF TotalEntries = 0 THEN Float32Zero
    ELSE Percentage(SkippedEntries, TotalEntries)

\* OrgAnalyzer.CalculateSkipPercentage
CalculateSkipPercentage == Percentage(SkippedEntries, TotalEntries)

\* OrgAnalyzer.CalculatePercentageOfTotal
CalculatePercentageOfTotal(count) == Percentage(count, TotalEntries)

\* OrgAnalyzer.CalculatePercentageOfAnalyzed
CalculatePercentageOfAnalyzed(count) ==
    LET analyzedAlerts == TotalEntries - SkippedEntries
    IN  Percentage(count, analyzedAlerts)

\* Summarize: printShortSummary / printLongSummary, or the yaml / json dump
Summarize ==
    /\ pc = "summarize"
    /\ IF Output \in {"short", "long"}
       THEN LET skipPercentage == CalculateSkipPercentage
            IN  /\ warned' = FloatGreater(skipPercentage, 3, 10)
                /\ errLines' = IF warned' THEN errLines + 1 ELSE errLines
                /\ \E stats \in SortSlice(Items) :
                     topOrgs' = TopOrgs(stats, NumOrgs)
                /\ call' = [op |-> "TopOrgs", numOrgs |-> NumOrgs]
       ELSE UNCHANGED <<warned, errLines, topOrgs, call>>
    /\ pc' = "done"
    /\ UNCHANGED <<Items, TotalEntries, SkippedEntries, flags, FieldsPerRecord,
                   entry, lookup, adds, retErr, ingested, discarded, promoteVars>>

Next == RunE \/ AnalyzeStart \/ AnalyzeEntry \/ Summarize

Spec == Init /\ [][Next]_vars

\* ------------------------------------------- the aggregator used directly
InitStats ==
    /\ NewOrgAnalyzer
    /\ NoPromotion
    /\ Output = "long"
    /\ NumOrgs = 5
    /\ SearchRegex = ""
    /\ pc = "lib"

\* o.AddStatistic(org, cluster, alert)
CallAddStatistic ==
    /\ pc = "lib"
    /\ adds < MaxAdds
    /\ \E org \in Organizations, cluster \in ClusterSet, alert \in AlertNames :
         /\ Items' = AddStatistic(Items, org, cluster, alert)
         /\ call' = [op |-> "AddStatistic", org |-> org, cluster |-> cluster,
                     alert |-> alert]
         /\ ingested' = MapIncrement(ingested, <<org.id, cluster.id, alert>>)
    /\ adds' = adds + 1
    /\ topOrgs' = <<>>
    /\ UNCHANGED <<TotalEntries, SkippedEntries, flags, pc, FieldsPerRecord,
                   entry, lookup, errLines, warned, retErr, discarded,
                   promoteVars>>

\* o.TopOrgs(numOrgs)
CallTopOrgs ==
    /\ pc = "lib"
    /\ \E numOrgs \in NumOrgsValues, stats \in SortSlice(Items) :
         /\ topOrgs' = TopOrgs(stats, numOrgs)
         /\ call' = [op |-> "TopOrgs", numOrgs |-> numOrgs]
    /\ UNCHANGED <<Items, TotalEntries, SkippedEntries, flags, pc,
                   FieldsPerRecord, entry, lookup, adds, errLines, warned, retErr,
                   ingested, discarded, promoteVars>>

NextStats == CallAddStatistic \/ CallTopOrgs

SpecStats == InitStats /\ [][NextStats]_vars

\* ------------------------------ the analyzer with its counters set directly
\* TotalEntries and SkippedEntries are exported fields: a caller sets them,
\* feeds AddStatistic and then queries the analyzer
TripleSet ==
    { [org |-> Owner(c), cluster |-> c, alert |-> a] :
        c \in OCMClusters, a \in AlertNames }

\* the calls made here: (orgA, clusterX, AlertFoo), (orgA, clusterY, AlertBar),
\* (orgB, clusterZ, AlertFoo)
QueryTriples ==
    { t \in TripleSet :
        \/ t.cluster.id = "c1" /\ t.alert = "AlertFoo"
        \/ t.cluster.id = "c2" /\ t.alert = "AlertBar"
        \/ t.cluster.id = "c3" /\ t.alert = "AlertFoo" }

\* counts given to CalculatePercentageOfTotal / CalculatePercentageOfAnalyzed
CountValues == {0, 1, 3}

InitQuery ==
    /\ Items = NewOrganizationStatsList
    /\ TotalEntries \in 0..MaxTotal
    /\ SkippedEntries \in 0..TotalEntries
    /\ Output \in {"short", "long"}
    /\ NumOrgs \in NumberFlagValues
    /\ SearchRegex = ""
    /\ pc = "query"
    /\ FieldsPerRecord = 0
    /\ entry = NoEntry
    /\ lookup = NoLookup
    /\ call = NoCall
    /\ adds = 0
    /\ topOrgs = <<>>
    /\ errLines = 0
    /\ warned = FALSE
    /\ retErr = "nil"
    /\ ingested = EmptyMap
    /\ discarded = 0
    /\ NoPromotion

\* o.AddStatistic(org, cluster, alert), for the entries that were not skipped
QueryAddStatistic ==
    /\ pc = "query"
    /\ adds < TotalEntries - SkippedEntries
    /\ \E t \in QueryTriples :
         /\ Items' = AddStatistic(Items, t.org, t.cluster, t.alert)
         /\ call' = [op |-> "AddStatistic", org |-> t.org, cluster |-> t.cluster,
                     alert |-> t.alert]
         /\ ingested' = MapIncrement(ingested, <<t.org.id, t.cluster.id, t.alert>>)
    /\ adds' = adds + 1
    /\ topOrgs' = <<>>
    /\ UNCHANGED <<TotalEntries, SkippedEntries, flags, pc, FieldsPerRecord,
                   entry, lookup, errLines, warned, retErr, discarded,
                   promoteVars>>

\* o.TopOrgs(numOrgs)
QueryTopOrgs ==
    /\ pc = "query"
    /\ \E numOrgs \in NumOrgsValues, stats \in SortSlice(Items) :
         /\ topOrgs' = TopOrgs(stats, numOrgs)
         /\ call' = [op |-> "TopOrgs", numOrgs |-> numOrgs]
    /\ UNCHANGED <<Items, TotalEntries, SkippedEntries, flags, pc,
                   FieldsPerRecord, entry, lookup, adds, errLines, warned, retErr,
                   ingested, discarded, promoteVars>>

\* o.CalculateSkipPercentage(), o.CalculatePercentageOfTotal(count),
\* o.CalculatePercentageOfAnalyzed(count); call keeps the value returned
QueryCalculate ==
    /\ pc = "query"
    /\ \/ call' = [op |-> "CalculateSkipPercentage", count |-> 0,
                   value |-> CalculateSkipPercentage]
       \/ \E count \in CountValues :
            call' = [op |-> "CalculatePercentageOfTotal", count |-> count,
                     value |-> CalculatePercentageOfTotal(count)]
       \/ \E count \in CountValues :
            call' = [op |-> "CalculatePercentageOfAnalyzed", count |-> count,
                     value |-> CalculatePercentageOfAnalyzed(count)]
    /\ UNCHANGED <<Items, TotalEntries, SkippedEntries, flags, pc,
                   FieldsPerRecord, entry, lookup, adds, topOrgs, errLines,
                   warned, retErr, ingested, discarded, promoteVars>>

\* o.Summarize() with --output short or long
QuerySummarize ==
    /\ pc = "query"
    /\ LET skipPercentage == CalculateSkipPercentage
       IN  /\ warned' = FloatGreater(skipPercentage, 3, 10)
           /\ errLines' = IF warned' THEN errLines + 1 ELSE errLines
           /\ \E stats \in SortSlice(Items) : topOrgs' = TopOrgs(stats, NumOrgs)
           /\ call' = [op |-> "TopOrgs", numOrgs |-> NumOrgs]
    /\ pc' = "done"
    /\ UNCHANGED <<Items, TotalEntries, SkippedEntries, flags, FieldsPerRecord,
                   entry, lookup, adds, retErr, ingested, discarded, promoteVars>>

NextQuery ==
    QueryAddStatistic \/ QueryTopOrgs \/ QueryCalculate \/ QuerySummarize

SpecQuery == InitQuery /\ [][NextQuery]_vars

\* ---------------------------------------------------------- promote saas
\* a file name, path or service name is the sequence of its parts, e.g.
\* <<dir, "saas-a", ".yaml">> for dir/saas-a.yaml; "" is <<>>
OSDSaasDir == "data/services/osd-operators/cicd/saas"
BPSaasDir == "data/services/backplane/cicd/saas"
CADSaasDir == "data/services/configuration-anomaly-detection/cicd"

\* saas-* entries an app-interface checkout can hold: a saas file, a directory
\* of saas files, a saas file of another team
SaasEntries ==
    { <<OSDSaasDir, "saas-a", ".yaml">>,
      <<OSDSaasDir, "saas-b">>,
      <<BPSaasDir, "saas-c", ".yaml">> }

\* values of --serviceName
ServiceNameValues == { <<"saas-a">>, <<"saas-b">>, <<"saas-x">> }

\* strings.Contains, strings.TrimSuffix, filepath.Base, filepath.Ext
Contains(s, part) == \E i \in DOMAIN s : s[i] = part

TrimSuffix(s, suffix) ==
    IF suffix # "" /\ Len(s) > 0 /\ s[Len(s)] = suffix
    THEN SubSeq(s, 1, Len(s) - 1)
    ELSE s

Base(path) == Tail(path)

Ext(filename) ==
    IF Len(filename) > 1 /\ filename[Len(filename)] = ".yaml"
    THEN ".yaml"
    ELSE ""

\* filepath.Glob(baseDir/dir/saas-*)
Glob(dir) == { path \in files : path[1] = dir }

\* GetServiceNames(saasDirs...); baseDir: git.GetBaseDir succeeded
GetServiceNames(saasDirs, baseDir) ==
    IF ~baseDir
    THEN [services |-> {}, err |-> "GetBaseDir"]
    ELSE [services |->
              { TrimSuffix(Base(path), ".yaml") :
                  path \in UNION { Glob(saasDirs[i]) : i \in DOMAIN saasDirs } },
          err |-> "nil"]

\* GetServiceFiles(saasDirs...): an error of traverseServiceFiles is dropped
GetServiceFiles(saasDirs, baseDir) ==
    LET paths == IF ~baseDir THEN {}
                 ELSE UNION { Glob(saasDirs[i]) : i \in DOMAIN saasDirs }
        filename(path) == TrimSuffix(Base(path), Ext(Base(path)))
    IN  [name \in { filename(path) : path \in paths } |->
            CHOOSE path \in paths : filename(path) = name]

\* validateServiceName: the error, "nil" when the service is listed
validateServiceName(services, serviceName) ==
    IF serviceName \in services THEN "nil" ELSE "service not found"

NotFound == [path |-> <<>>, err |-> "saas directory for service not found"]

\* getSaasDir: GetServiceFiles is called without any directory
getSaasDir(serviceName, osd, hcp, baseDir) ==
    LET serviceFiles == GetServiceFiles(<<>>, baseDir)
    IN  IF serviceName \in DOMAIN serviceFiles
        THEN LET dir == serviceFiles[serviceName]
             IN  IF Contains(dir, ".yaml") /\ osd
                 THEN [path |-> dir, err |-> "nil"]
                 ELSE IF osd
                 THEN [path |-> Append(dir, "/deploy.yaml"), err |-> "nil"]
                 ELSE IF hcp
                 THEN [path |-> Append(dir, "/hypershift-deploy.yaml"),
                       err |-> "nil"]
                 ELSE NotFound
        ELSE NotFound

\* the analyze command is not running
NoAnalysis ==
    /\ NewOrgAnalyzer
    /\ Output = "long"
    /\ NumOrgs = 5
    /\ SearchRegex = ""
    /\ pc = "idle"

\* validateServiceName and getSaasDir called as servicePromotion calls them,
\* in any app-interface checkout
InitSaasDir ==
    /\ NoAnalysis
    /\ ops \in [list : {FALSE}, osd : BOOLEAN, hcp : BOOLEAN,
                serviceName : ServiceNameValues, gitHash : {"h3"}]
    /\ files \in SUBSET SaasEntries
    /\ ppc = "validateServiceName"
    /\ saasDir = NoSaasDir
    /\ promoteErr = "none"
    /\ updateErr = "none"
    /\ exitCode = -1
    /\ currentGitHash = ""
    /\ promotionGitHash = ""
    /\ fileContent = <<>>
    /\ original = <<>>
    /\ gitSteps = <<>>
    /\ committed = <<>>

\* services, err := GetServiceNames(OSDSaasDir, BPSaasDir, CADSaasDir);
\* err = validateServiceName(services, serviceName)
CallValidateServiceName ==
    /\ ppc = "validateServiceName"
    /\ \E baseDir \in BOOLEAN :
         LET names == GetServiceNames(<<OSDSaasDir, BPSaasDir, CADSaasDir>>,
                                      baseDir)
         IN  promoteErr' =
                 IF names.err # "nil" THEN names.err
                 ELSE validateServiceName(names.services, ops.serviceName)
    /\ ppc' = "getSaasDir"
    /\ UNCHANGED <<analyzeVars, ops, files, saasDir, updateErr, exitCode,
                   currentGitHash, promotionGitHash, fileContent, original,
                   gitSteps, committed>>

\* saasDir, err := getSaasDir(serviceName, osd, hcp)
CallGetSaasDir ==
    /\ ppc = "getSaasDir"
    /\ \E baseDir \in BOOLEAN :
         saasDir' = getSaasDir(ops.serviceName, ops.osd, ops.hcp, baseDir)
    /\ ppc' = "returned"
    /\ UNCHANGED <<analyzeVars, ops, files, promoteErr, updateErr, exitCode,
                   currentGitHash, promotionGitHash, fileContent, original,
                   gitSteps, committed>>

NextSaasDir == CallValidateServiceName \/ CallGetSaasDir

SpecSaasDir == InitSaasDir /\ [][NextSaasDir]_vars

\* --------------------------------------------- the promote saas command
\* The command's own steps are followed one by one; what a step's callee
\* returns (a value or an error) is taken as returned, for every result the
\* callee's signature allows.
GitHashValues == {"h1", "h2"}

\* content of the saas file: the refs of its targets
FileContents == { <<"ref", "h1", "ref", "h1">>, <<"ref", "h2">> }

\* strings.ReplaceAll
ReplaceAll(content, old, new) ==
    [i \in DOMAIN content |-> IF content[i] = old THEN new ELSE content[i]]

InitPromote ==
    /\ NoAnalysis
    /\ ops \in [list : BOOLEAN, osd : BOOLEAN, hcp : BOOLEAN,
                serviceName : {<<>>, <<"saas-a">>}, gitHash : {"", "h3"}]
    /\ files = {}
    /\ ppc = "Run"
    /\ saasDir = NoSaasDir
    /\ promoteErr = "none"
    /\ updateErr = "none"
    /\ exitCode = -1
    /\ currentGitHash = ""
    /\ promotionGitHash = ""
    /\ fileContent \in FileContents
    /\ original = fileContent
    /\ gitSteps = <<>>
    /\ committed = <<>>

\* the part of the promote state no step of the command itself changes
promoteInputs == <<ops, files, original>>

\* Run, up to the call of servicePromotion: log.Fatal exits with status 1
SaasRun ==
    /\ ppc = "Run"
    /\ \E bootstrapped \in BOOLEAN :
         IF ~bootstrapped
         THEN exitCode' = 1 /\ ppc' = "exited"
         ELSE IF ops.list
         THEN /\ exitCode' = IF \/ ops.serviceName # <<>> \/ ops.gitHash # ""
                                \/ ops.osd \/ ops.hcp
                             THEN 1 ELSE 0
              /\ ppc' = "exited"
         ELSE IF ~(ops.osd \/ ops.hcp) /\ ops.serviceName # <<>>
         THEN exitCode' = 1 /\ ppc' = "exited"
         ELSE exitCode' = exitCode /\ ppc' = "servicePromotion"
    /\ UNCHANGED <<analyzeVars, promoteInputs, saasDir, promoteErr, updateErr,
                   currentGitHash, promotionGitHash, fileContent, gitSteps,
                   committed>>

\* servicePromotion: GetServiceNames and validateServiceName
PromotionValidate ==
    /\ ppc = "servicePromotion"
    /\ \E err \in {"nil", "GetBaseDir"}, services \in SUBSET {<<"saas-a">>} :
         LET invalid == validateServiceName(services, ops.serviceName)
         IN  IF err # "nil"
             THEN promoteErr' = err /\ ppc' = "returned"
             ELSE IF invalid # "nil"
             THEN promoteErr' = invalid /\ ppc' = "returned"
             ELSE promoteErr' = promoteErr /\ ppc' = "getSaasDir"
    /\ UNCHANGED <<analyzeVars, promoteInputs, saasDir, updateErr, exitCode,
                   currentGitHash, promotionGitHash, fileContent, gitSteps,
                   committed>>

\* servicePromotion: getSaasDir
PromotionGetSaasDir ==
    /\ ppc = "getSaasDir"
    /\ \E res \in {NotFound,
                   [path |-> <<OSDSaasDir, "saas-a", ".yaml">>, err |-> "nil"]} :
         /\ saasDir' = res
         /\ IF res.err # "nil"
            THEN promoteErr' = res.err /\ ppc' = "returned"
            ELSE promoteErr' = promoteErr /\ ppc' = "ReadFile"
    /\ UNCHANGED <<analyzeVars, promoteInputs, updateErr, exitCode,
                   currentGitHash, promotionGitHash, fileContent, gitSteps,
                   committed>>

\* servicePromotion: os.ReadFile(saasDir)
PromotionReadFile ==
    /\ ppc = "ReadFile"
    /\ \E read \in BOOLEAN :
         IF ~read
         THEN promoteErr' = "failed to read SAAS file" /\ ppc' = "returned"
         ELSE promoteErr' = promoteErr /\ ppc' = "GetCurrentGitHash"
    /\ UNCHANGED <<analyzeVars, promoteInputs, saasDir, updateErr, exitCode,
                   currentGitHash, promotionGitHash, fileContent, gitSteps,
                   committed>>

\* servicePromotion: git.GetCurrentGitHashFromAppInterface, which ends the
\* process through log.Fatal when the file is not YAML
PromotionCurrentGitHash ==
    /\ ppc = "GetCurrentGitHash"
    /\ \/ /\ exitCode' = 1
          /\ ppc' = "exited"
          /\ UNCHANGED <<promoteErr, currentGitHash>>
       \/ /\ promoteErr' = "failed to get current git hash or service repo"
          /\ ppc' = "returned"
          /\ UNCHANGED <<exitCode, currentGitHash>>
       \/ /\ currentGitHash' \in GitHashValues
          /\ ppc' = "CheckoutAndCompareGitHash"
          /\ UNCHANGED <<exitCode, promoteErr>>
    /\ UNCHANGED <<analyzeVars, promoteInputs, saasDir, updateErr,
                   promotionGitHash, fileContent, gitSteps, committed>>

\* servicePromotion: git.CheckoutAndCompareGitHash; os.Exit(6) when it finds
\* no hash to promote
PromotionCheckoutAndCompare ==
    /\ ppc = "CheckoutAndCompareGitHash"
    /\ \/ /\ promoteErr' = "failed to checkout and compare git hash"
          /\ ppc' = "returned"
          /\ UNCHANGED <<exitCode, promotionGitHash>>
       \/ /\ exitCode' = 6
          /\ ppc' = "exited"
          /\ UNCHANGED <<promoteErr, promotionGitHash>>
       \/ /\ promotionGitHash' = "h3"
          /\ ppc' = "checkout"
          /\ UNCHANGED <<exitCode, promoteErr>>
    /\ UNCHANGED <<analyzeVars, promoteInputs, saasDir, updateErr,
                   currentGitHash, fileContent, gitSteps, committed>>

\* UpdateAndCommitChangesForAppInterface: git checkout -b branchName master
UpdateCheckoutBranch ==
    /\ ppc = "checkout"
    /\ gitSteps' = Append(gitSteps, "checkout")
    /\ \E created \in BOOLEAN :
         IF ~created
         THEN updateErr' = "failed to create branch" /\ ppc' = "updated"
         ELSE updateErr' = updateErr /\ ppc' = "read"
    /\ UNCHANGED <<analyzeVars, promoteInputs, saasDir, promoteErr, exitCode,
                   currentGitHash, promotionGitHash, fileContent, committed>>

\* UpdateAndCommitChangesForAppInterface: os.ReadFile(saasFile)
UpdateReadFile ==
    /\ ppc = "read"
    /\ gitSteps' = Append(gitSteps, "read")
    /\ \E read \in BOOLEAN :
         IF ~read
         THEN updateErr' = "failed to read file" /\ ppc' = "updated"
         ELSE updateErr' = updateErr /\ ppc' = "write"
    /\ UNCHANGED <<analyzeVars, promoteInputs, saasDir, promoteErr, exitCode,
                   currentGitHash, promotionGitHash, fileContent, committed>>

\* variant: the error of os.WriteFile is not checked
UpdateWriteFileUnchecked ==
    /\ ppc = "write"
    /\ gitSteps' = Append(gitSteps, "write")
    /\ LET newContent ==
               ReplaceAll(fileContent, currentGitHash, promotionGitHash)
       IN  \E written \in BOOLEAN :
             /\ fileContent' \in (IF written THEN {newContent}
                                            ELSE {fileContent, <<>>})
             /\ updateErr' = updateErr
             /\ ppc' = "add"
    /\ UNCHANGED <<analyzeVars, promoteInputs, saasDir, promoteErr, exitCode,
                   currentGitHash, promotionGitHash, committed>>

\* UpdateAndCommitChangesForAppInterface: strings.ReplaceAll and os.WriteFile;
\* a failed write leaves the file untouched or truncated
UpdateWriteFile ==
    /\ ppc = "write"
    /\ gitSteps' = Append(gitSteps, "write")
    /\ LET newContent ==
               ReplaceAll(fileContent, currentGitHash, promotionGitHash)
       IN  \E written \in BOOLEAN :
             IF ~written
             THEN /\ fileContent' \in {fileContent, <<>>}
                  /\ updateErr' = "failed to write to file"
                  /\ ppc' = "updated"
             ELSE /\ fileContent' = newContent
                  /\ updateErr' = updateErr
                  /\ ppc' = "add"
    /\ UNCHANGED <<analyzeVars, promoteInputs, saasDir, promoteErr, exitCode,
                   currentGitHash, promotionGitHash, committed>>

\* UpdateAndCommitChangesForAppInterface: git add saasFile
UpdateGitAdd ==
    /\ ppc = "add"
    /\ gitSteps' = Append(gitSteps, "add")
    /\ \E added \in BOOLEAN :
         IF ~added
         THEN updateErr' = "failed to add file" /\ ppc' = "updated"
         ELSE updateErr' = updateErr /\ ppc' = "commit"
    /\ UNCHANGED <<analyzeVars, promoteInputs, saasDir, promoteErr, exitCode,
                   currentGitHash, promotionGitHash, fileContent, committed>>

\* UpdateAndCommitChangesForAppInterface: git commit -m commitMessage, and
\* the return of nil
UpdateGitCommit ==
    /\ ppc = "commit"
    /\ gitSteps' = Append(gitSteps, "commit")
    /\ \E done \in BOOLEAN :
         IF ~done
         THEN /\ updateErr' = "failed to commit changes"
              /\ committed' = committed
         ELSE /\ updateErr' = "nil"
              /\ committed' = <<fileContent>>
    /\ ppc' = "updated"
    /\ UNCHANGED <<analyzeVars, promoteInputs, saasDir, promoteErr, exitCode,
                   currentGitHash, promotionGitHash, fileContent>>

\* servicePromotion: after UpdateAndCommitChangesForAppInterface returned
PromotionReturn ==
    /\ ppc = "updated"
    /\ promoteErr' = "nil"
    /\ ppc' = "returned"
    /\ UNCHANGED <<analyzeVars, promoteInputs, saasDir, updateErr, exitCode,
                   currentGitHash, promotionGitHash, fileContent, gitSteps,
                   committed>>

\* Run, after servicePromotion returned
SaasExit ==
    /\ ppc = "returned"
    /\ exitCode' = IF promoteErr # "nil" THEN 1 ELSE 0
    /\ ppc' = "exited"
    /\ UNCHANGED <<analyzeVars, promoteInputs, saasDir, promoteErr, updateErr,
                   currentGitHash, promotionGitHash, fileContent, gitSteps,
                   committed>>

NextPromote ==
    \/ SaasRun
    \/ PromotionValidate
    \/ PromotionGetSaasDir
    \/ PromotionReadFile
    \/ PromotionCurrentGitHash
    \/ PromotionCheckoutAndCompare
    \/ UpdateCheckoutBranch
    \/ UpdateReadFile
    \/ UpdateWriteFile
    \/ UpdateGitAdd
    \/ UpdateGitCommit
    \/ PromotionReturn
    \/ SaasExit

SpecPromote == InitPromote /\ [][NextPromote]_vars

\* ================================================================ claims
\* sum of f[x] over x in S
RECURSIVE SumOver(_, _)
SumOver(f, S) ==
    IF S = {} THEN 0
    ELSE LET x == CHOOSE y \in S : TRUE
         IN  f[x] + SumOver(f, S \ {x})

\* totals and counts as read from a state of Items (0 where nothing is stored)
OrgTotal(items, o) ==
    IF o \in DOMAIN items THEN items[o].TotalAlerts ELSE 0

ClusterTotal(items, o, c) ==
    IF o \in DOMAIN items /\ c \in DOMAIN items[o].Clusters
    THEN items[o].Clusters[c].TotalAlerts ELSE 0

AlertCount(items, o, c, a) ==
    IF /\ o \in DOMAIN items
       /\ c \in DOMAIN items[o].Clusters
       /\ a \in DOMAIN items[o].Clusters[c].Alerts
    THEN items[o].Clusters[c].Alerts[a] ELSE 0

OrgIDs == { o.id : o \in Organizations }
ClusterIDs == { c.id : c \in ClusterSet }

\* C1: after any sequence of AddStatistic calls, every organization's
\* TotalAlerts equals the sum of the TotalAlerts of the ClusterStats in its
\* Clusters map.
C1_OrgTotalIsSumOfClusters ==
    \A o \in DOMAIN Items :
        Items[o].TotalAlerts =
            SumOver([c \in DOMAIN Items[o].Clusters |->
                        Items[o].Clusters[c].TotalAlerts],
                    DOMAIN Items[o].Clusters)

\* an organization with two clusters, one of them hit more than once
C1_Witness ==
    /\ pc = "lib"
    /\ \E o \in DOMAIN Items :
         /\ Cardinality(DOMAIN Items[o].Clusters) = 2
         /\ Items[o].TotalAlerts >= 3

\* C2: after any sequence of AddStatistic calls, every ClusterStats has
\* TotalAlerts equal to the sum of the counts in its Alerts map, and every
\* stored count is at least 1.
C2_ClusterTotalIsSumOfAlerts ==
    \A o \in DOMAIN Items :
        \A c \in DOMAIN Items[o].Clusters :
            LET cs == Items[o].Clusters[c]
            IN  /\ cs.TotalAlerts = SumOver(cs.Alerts, DOMAIN cs.Alerts)
                /\ \A a \in DOMAIN cs.Alerts : cs.Alerts[a] >= 1

\* a cluster with two alert names, one of them counted more than once
C2_Witness ==
    /\ pc = "lib"
    /\ \E o \in DOMAIN Items :
         \E c \in DOMAIN Items[o].Clusters :
            /\ Cardinality(DOMAIN Items[o].Clusters[c].Alerts) = 2
            /\ \E a \in DOMAIN Items[o].Clusters[c].Alerts :
                 Items[o].Clusters[c].Alerts[a] >= 2

\* C3: a call AddStatistic(org, cluster, alert) leaves the organization, the
\* cluster and the alert present, adds exactly one to the organization's total,
\* to the cluster's total under that organization and to the alert's count
\* under that cluster, and changes no other organization, cluster or count.
C3_AddStatisticStep ==
    [][ (pc = "lib" /\ adds' = adds + 1) =>
          LET o == call'.org.id
              c == call'.cluster.id
              a == call'.alert
          IN  /\ call'.op = "AddStatistic"
              /\ DOMAIN Items' = DOMAIN Items \cup {o}
              /\ Items'[o].Organization.id = o
              /\ DOMAIN Items'[o].Clusters =
                    (IF o \in DOMAIN Items THEN DOMAIN Items[o].Clusters ELSE {})
                        \cup {c}
              /\ a \in DOMAIN Items'[o].Clusters[c].Alerts
              /\ OrgTotal(Items', o) = OrgTotal(Items, o) + 1
              /\ ClusterTotal(Items', o, c) = ClusterTotal(Items, o, c) + 1
              /\ AlertCount(Items', o, c, a) = AlertCount(Items, o, c, a) + 1
              /\ \A o2 \in OrgIDs \ {o} :
                    /\ o2 \in DOMAIN Items => Items'[o2] = Items[o2]
                    /\ OrgTotal(Items', o2) = OrgTotal(Items, o2)
              /\ \A o2 \in OrgIDs, c2 \in ClusterIDs, a2 \in AlertNames :
                    /\ <<o2, c2>> # <<o, c>> =>
                          ClusterTotal(Items', o2, c2) = ClusterTotal(Items, o2, c2)
                    /\ <<o2, c2, a2>> # <<o, c, a>> =>
                          AlertCount(Items', o2, c2, a2) = AlertCount(Items, o2, c2, a2)
      ]_vars

\* the call hit an existing organization, cluster and alert while another
\* organization was present
C3_Witness ==
    /\ pc = "lib"
    /\ call.op = "AddStatistic"
    /\ AlertCount(Items, call.org.id, call.cluster.id, call.alert) >= 2
    /\ Cardinality(DOMAIN Items) >= 2

\* the organizations a TopOrgs result lists
ReturnedIDs == { topOrgs[i].Organization.id : i \in 1..Len(topOrgs) }

\* the result lists distinct organizations, each with its current statistics
ReturnsCurrentStats ==
    /\ \A i, j \in 1..Len(topOrgs) :
          i # j => topOrgs[i].Organization.id # topOrgs[j].Organization.id
    /\ \A i \in 1..Len(topOrgs) :
          /\ topOrgs[i].Organization.id \in DOMAIN Items
          /\ topOrgs[i] = Items[topOrgs[i].Organization.id]

\* C4: TopOrgs(k) with 0 < k < number of organizations returns exactly k
\* organizations, each with at least as many alerts as every organization
\* that is not returned.
C4_TopOrgsReturnsTheKLargest ==
    (/\ pc = "lib"
     /\ call.op = "TopOrgs"
     /\ 0 < call.numOrgs
     /\ call.numOrgs < Cardinality(DOMAIN Items))
        => /\ Len(topOrgs) = call.numOrgs
           /\ ReturnsCurrentStats
           /\ \A i \in 1..Len(topOrgs) :
                 \A o \in DOMAIN Items \ ReturnedIDs :
                    topOrgs[i].TotalAlerts >= Items[o].TotalAlerts

\* two of three organizations returned, the one left out tying with the
\* smaller of them
C4_Witness ==
    /\ pc = "lib"
    /\ call.op = "TopOrgs"
    /\ call.numOrgs = 2
    /\ Cardinality(DOMAIN Items) = 3
    /\ Len(topOrgs) = 2
    /\ \E o \in DOMAIN Items \ ReturnedIDs :
          /\ Items[o].TotalAlerts = topOrgs[1].TotalAlerts
          /\ Items[o].TotalAlerts < topOrgs[2].TotalAlerts

\* C5: TopOrgs(n) with n <= 0 or n >= number of organizations returns every
\* organization exactly once, in ascending order of TotalAlerts; with no
\* organization the result is empty for every n.
C5_TopOrgsReturnsAllAscending ==
    (/\ pc = "lib"
     /\ call.op = "TopOrgs"
     /\ (call.numOrgs <= 0 \/ call.numOrgs >= Cardinality(DOMAIN Items)))
        => /\ Len(topOrgs) = Cardinality(DOMAIN Items)
           /\ ReturnedIDs = DOMAIN Items
           /\ ReturnsCurrentStats
           /\ \A i, j \in 1..Len(topOrgs) :
                 i < j => topOrgs[i].TotalAlerts <= topOrgs[j].TotalAlerts
           /\ (Items = EmptyMap => topOrgs = <<>>)

\* TopOrgs(0) on three organizations with different totals
C5_Witness ==
    /\ pc = "lib"
    /\ call.op = "TopOrgs"
    /\ call.numOrgs = 0
    /\ Len(topOrgs) = 3
    /\ topOrgs[1].TotalAlerts < topOrgs[3].TotalAlerts

\* C6: throughout Analyze, TotalEntries >= SkippedEntries >= 0; every entry
\* read adds exactly one to TotalEntries and at most one to SkippedEntries, and
\* nothing else changes either counter.
C6_EntriesCounted ==
    /\ [](0 <= SkippedEntries /\ SkippedEntries <= TotalEntries)
    /\ [][ IF pc = "loop" /\ entry'.err # "EOF"
           THEN /\ TotalEntries' = TotalEntries + 1
                /\ SkippedEntries' \in {SkippedEntries, SkippedEntries + 1}
           ELSE UNCHANGED <<TotalEntries, SkippedEntries>>
         ]_vars

\* two entries read, one skipped and one added
C6_Witness ==
    /\ pc = "loop"
    /\ TotalEntries >= 2
    /\ SkippedEntries >= 1
    /\ SkippedEntries < TotalEntries
    /\ adds >= 1

\* an entry the csv reader rejects, or one too short to hold the cluster ID
\* and the alert
Malformed(rd) ==
    \/ rd.err \in {"ParseError", "ErrFieldCount"}
    \/ /\ rd.err = "nil"
       /\ (Len(rd.record) <= ClusterIDIndex \/ Len(rd.record) <= AlertIndex)

\* C7: a malformed report entry is reported, counted in SkippedEntries and
\* never passed to AddStatistic, and Analyze goes on with the next entry.
C7_MalformedEntrySkipped ==
    [][ (pc = "loop" /\ Malformed(entry')) =>
          /\ errLines' = errLines + 1
          /\ SkippedEntries' = SkippedEntries + 1
          /\ call'.op # "AddStatistic"
          /\ adds' = adds
          /\ Items' = Items
          /\ pc' = "loop"
      ]_vars

\* C8: when GetCluster, GetOrgIDFromCluster or GetOrgFromID fails for an
\* entry, SkippedEntries grows by exactly one, the statistics are unchanged
\* and Analyze goes on with the next entry.
C8_LookupFailureSkipped ==
    [][ (pc = "loop" /\ entry'.err = "nil" /\ lookup'.err \in LookupErrors) =>
          /\ SkippedEntries' = SkippedEntries + 1
          /\ TotalEntries' = TotalEntries + 1
          /\ Items' = Items
          /\ adds' = adds
          /\ call'.op # "AddStatistic"
          /\ pc' = "loop"
      ]_vars

\* the organization lookup failed after an earlier entry had been added
C8_Witness ==
    /\ pc = "loop"
    /\ lookup.err = "GetOrgIDFromCluster"
    /\ SkippedEntries = 1
    /\ adds >= 1
    /\ Items # EmptyMap

\* the organization's name or ID is matched by the pattern
OrgMatches(pattern, org) ==
    org.name \in Matching(pattern) \/ org.id \in Matching(pattern)

\* the entry was read, parsed and resolved, and --search is set
FilterApplies ==
    /\ pc = "loop"
    /\ entry'.err = "nil"
    /\ lookup'.err = "nil"
    /\ SearchRegex # ""

\* the entry is dropped without being counted as skipped
Discarded ==
    /\ SkippedEntries' = SkippedEntries
    /\ Items' = Items
    /\ adds' = adds
    /\ call'.op # "AddStatistic"
    /\ pc' = "loop"

\* the entry is handed to AddStatistic for its organization
Added ==
    /\ SkippedEntries' = SkippedEntries
    /\ adds' = adds + 1
    /\ call'.op = "AddStatistic"
    /\ call'.org = lookup'.org
    /\ call'.cluster = lookup'.cluster
    /\ call'.alert = entry'.record[AlertIndex + 1]
    /\ OrgTotal(Items', lookup'.org.id) = OrgTotal(Items, lookup'.org.id) + 1
    /\ pc' = "loop"

\* C9 as stated: with a search pattern set, an entry whose organization
\* matches on neither name nor ID is discarded and not counted as skipped, and
\* one that matches on name or ID is added.
C9_AsStated ==
    [][ FilterApplies =>
          IF OrgMatches(SearchRegex, lookup'.org) THEN Added ELSE Discarded
      ]_vars

\* C9: with a search pattern set that compiles (regexp.MatchString returns
\* no error), an entry whose organization matches on neither name nor ID is
\* discarded and not counted as skipped, and one that matches on name or ID
\* is added; with a pattern that does not compile, every resolved entry is
\* counted in SkippedEntries and none is added.
C9_FilterOnCompiledPattern ==
    [][ FilterApplies =>
          IF \/ MatchString(SearchRegex, lookup'.org.name).err
             \/ MatchString(SearchRegex, lookup'.org.id).err
          THEN /\ SkippedEntries' = SkippedEntries + 1
               /\ Items' = Items
               /\ adds' = adds
          ELSE IF OrgMatches(SearchRegex, lookup'.org) THEN Added ELSE Discarded
      ]_vars

\* with --search set, an entry was discarded after another had been added
C9_Witness ==
    /\ pc = "loop"
    /\ SearchRegex = "^o2$"
    /\ entry.err = "nil"
    /\ lookup.err = "nil"
    /\ lookup.org.id # "o2"
    /\ call.op = "none"
    /\ SkippedEntries = 0
    /\ TotalEntries >= 2
    /\ OrgTotal(Items, "o2") >= 1

\* C10: with an --output value other than short, long, yaml and json the
\* command returns an error before Analyze is called: nothing is read, no
\* counter changes and no statistic is added.
C10_InvalidOutputRejected ==
    Output \notin {"short", "long", "yaml", "json"} =>
        /\ pc \in {"start", "error"}
        /\ pc = "error" => retErr = "invalid argument provided"
        /\ entry = NoEntry
        /\ FieldsPerRecord = 0
        /\ TotalEntries = 0
        /\ SkippedEntries = 0
        /\ Items = NewOrganizationStatsList
        /\ adds = 0
        /\ errLines = 0

\* the command has returned the error for --output xml
C10_Witness ==
    /\ Output = "xml"
    /\ pc = "error"
    /\ retErr = "invalid argument provided"

\* C11: in the short and long summaries the 'High skip percentage detected'
\* warning is written exactly when more than 30% of the entries were skipped
\* (SkippedEntries * 100 > 30 * TotalEntries), and the organizations are
\* still printed after it.
C11_WarningAboveThirtyPercent ==
    (pc = "done" /\ Output \in {"short", "long"})
        => /\ warned <=> (SkippedEntries * 100 > 30 * TotalEntries)
           /\ call.op = "TopOrgs"
           /\ Len(topOrgs) <= Cardinality(DOMAIN Items)

\* C12: calling TopOrgs(n), CalculateSkipPercentage, CalculatePercentageOfTotal
\* or CalculatePercentageOfAnalyzed again with the same argument, with no
\* AddStatistic in between, returns the same result (for TopOrgs the same
\* organizations in the same order) and leaves the aggregator unchanged.
C12_RequeryingIsIdempotent ==
    [][ (pc = "query" /\ call'.op = call.op)
          => /\ (call.op = "TopOrgs" /\ call'.numOrgs = call.numOrgs)
                  => topOrgs' = topOrgs
             /\ (/\ call.op \in {"CalculateSkipPercentage",
                                 "CalculatePercentageOfTotal",
                                 "CalculatePercentageOfAnalyzed"}
                 /\ call'.count = call.count)
                  => call'.value = call.value
             /\ call.op # "AddStatistic"
                  => <<Items, TotalEntries, SkippedEntries>>'
                       = <<Items, TotalEntries, SkippedEntries>> ]_vars

\* C13: within one run of Analyze no cluster ID is a key of the Clusters map
\* of two different organizations.
C13_ClusterUnderOneOrganization ==
    \A o1 \in DOMAIN Items, o2 \in DOMAIN Items :
        (DOMAIN Items[o1].Clusters \cap DOMAIN Items[o2].Clusters # {})
            => o1 = o2

\* Analyze has filed clusters under two organizations
C13_Witness ==
    /\ pc = "done"
    /\ Cardinality(DOMAIN Items) = 2
    /\ \A o \in DOMAIN Items : DOMAIN Items[o].Clusters # {}

\* how often (o, c, a) was passed to AddStatistic, in whatever order
Ingested(o, c, a) ==
    IF <<o, c, a>> \in DOMAIN ingested THEN ingested[<<o, c, a>>] ELSE 0

\* C14: the counts do not depend on the order of ingestion: whatever the order
\* in which a multiset of (organization, cluster, alert) triples was passed to
\* AddStatistic, every alert count, cluster total and organization total is
\* the one determined by the multiset.
C14_CountsDependOnlyOnMultiset ==
    \A o \in OrgIDs :
        /\ OrgTotal(Items, o)
             = SumOver([t \in ClusterIDs \X AlertNames |-> Ingested(o, t[1], t[2])],
                       ClusterIDs \X AlertNames)
        /\ \A c \in ClusterIDs :
             /\ ClusterTotal(Items, o, c)
                  = SumOver([a \in AlertNames |-> Ingested(o, c, a)], AlertNames)
             /\ \A a \in AlertNames : AlertCount(Items, o, c, a) = Ingested(o, c, a)

\* three triples, two of them equal, have been ingested: three orders lead here
C14_Witness ==
    /\ adds = 3
    /\ Cardinality(DOMAIN ingested) = 2
    /\ \E o \in DOMAIN Items : Cardinality(DOMAIN Items[o].Clusters) = 2

\* float32(n) for a small integer n
Float32Of(n) == Float32Quo(n, 1)

\* the worked example: (orgA, clusterX, AlertFoo) twice, (orgA, clusterY,
\* AlertBar) and (orgB, clusterZ, AlertFoo) have been ingested and the
\* counters are set to TotalEntries = 5, SkippedEntries = 1
ScenarioIngested ==
    /\ pc = "query"
    /\ TotalEntries = 5
    /\ SkippedEntries = 1
    /\ adds = 4
    /\ Ingested("o1", "c1", "AlertFoo") = 2
    /\ Ingested("o1", "c2", "AlertBar") = 1
    /\ Ingested("o2", "c3", "AlertFoo") = 1

\* C15 as stated: in the worked example orgA's total is 3, its clusterX has
\* AlertFoo counted twice, orgB's total is 1, CalculateSkipPercentage() is 20,
\* CalculatePercentageOfTotal(3) is 60 and CalculatePercentageOfAnalyzed(3) is
\* 75.
C15_AsStated ==
    ScenarioIngested
        => /\ OrgTotal(Items, "o1") = 3
           /\ AlertCount(Items, "o1", "c1", "AlertFoo") = 2
           /\ OrgTotal(Items, "o2") = 1
           /\ CalculateSkipPercentage = Float32Of(20)
           /\ CalculatePercentageOfTotal(3) = Float32Of(60)
           /\ CalculatePercentageOfAnalyzed(3) = Float32Of(75)

\* C15: in the worked example orgA's total is 3, its clusterX has AlertFoo
\* counted twice, orgB's total is 1, CalculateSkipPercentage() is 20,
\* CalculatePercentageOfAnalyzed(3) is 75, and CalculatePercentageOfTotal(3)
\* is the float32 next above 60 (60.000004), because float32(3) / float32(5)
\* is rounded before it is multiplied by 100.
C15_ScenarioInFloat32 ==
    ScenarioIngested
        => /\ OrgTotal(Items, "o1") = 3
           /\ AlertCount(Items, "o1", "c1", "AlertFoo") = 2
           /\ OrgTotal(Items, "o2") = 1
           /\ CalculateSkipPercentage = Float32Of(20)
           /\ CalculatePercentageOfTotal(3)
                = [Float32Of(60) EXCEPT !.m = Float32Of(60).m + 1]
           /\ CalculatePercentageOfAnalyzed(3) = Float32Of(75)

\* the example has been ingested and CalculatePercentageOfTotal(3) was called
C15_Witness ==
    /\ ScenarioIngested
    /\ call.op = "CalculatePercentageOfTotal"
    /\ call.count = 3
    /\ call.value = CalculatePercentageOfTotal(3)

\* C16: with TotalEntries = 0, CalculateSkipPercentage() raises no error and
\* returns NaN, and a short or long Summarize on such an analyzer still
\* completes (without the warning, NaN comparing false with the threshold).
C16_ZeroEntriesGiveNaN ==
    /\ TotalEntries = 0 => CalculateSkipPercentage = Float32NaN
    /\ (call.op = "CalculateSkipPercentage" /\ TotalEntries = 0)
          => call.value.nan
    /\ (pc = "done" /\ Output \in {"short", "long"} /\ TotalEntries = 0)
          => /\ ~warned
             /\ errLines = 0
             /\ topOrgs = <<>>

\* Summarize has run on an analyzer without entries
C16_Witness ==
    /\ pc = "done"
    /\ Output \in {"short", "long"}
    /\ TotalEntries = 0
    /\ call.op = "TopOrgs"

\* sum of TotalAlerts over all organizations
SumOfTotals ==
    SumOver([o \in DOMAIN Items |-> Items[o].TotalAlerts], DOMAIN Items)

\* C17: once Analyze has completed, the sum of TotalAlerts over all
\* organizations is TotalEntries - SkippedEntries minus the number of entries
\* the search filter discarded; without a search pattern nothing is discarded
\* and the sum is exactly TotalEntries - SkippedEntries.
C17_AnalyzedEntriesAccounted ==
    pc \in {"summarize", "done"}
        => /\ SumOfTotals = TotalEntries - SkippedEntries - discarded
           /\ SearchRegex = "" => /\ discarded = 0
                                  /\ SumOfTotals = TotalEntries - SkippedEntries

\* Analyze has completed after adding one entry and discarding another
C17_Witness ==
    /\ pc = "done"
    /\ SearchRegex # ""
    /\ discarded = 1
    /\ SumOfTotals = 1
    /\ TotalEntries = 2

\* C19: for a service name that validateServiceName accepts, with --osd or
\* --hcp set, getSaasDir returns the path of the saas file and not the
\* 'saas directory for service ... not found' error; it returns that error
\* only when the service is unknown or neither --osd nor --hcp is set.
C19_SaasDirFoundForValidService ==
    (ppc = "returned" /\ promoteErr \in {"nil", "service not found"})
        => (saasDir.err = "nil" <=> (promoteErr = "nil" /\ (ops.osd \/ ops.hcp)))

UpdateSteps == <<"checkout", "read", "write", "add", "commit">>

FailedStep(err) ==
    CASE err = "failed to create branch" -> 1
      [] err = "failed to read file" -> 2
      [] err = "failed to write to file" -> 3
      [] err = "failed to add file" -> 4
      [] err = "failed to commit changes" -> 5

\* C20: UpdateAndCommitChangesForAppInterface executes its steps in the order
\* create branch, read the saas file, write the replaced content, git add, git
\* commit; when a step fails it returns that step's error and executes none
\* of the later steps, so a commit is only made after the saas file was
\* rewritten with promotionGitHash in place of currentGitHash.
C20_UpdateStepsInOrder ==
    /\ Len(gitSteps) <= Len(UpdateSteps)
    /\ gitSteps = SubSeq(UpdateSteps, 1, Len(gitSteps))
    /\ updateErr \notin {"none", "nil"}
          => /\ ppc \in {"updated", "returned", "exited"}
             /\ Len(gitSteps) = FailedStep(updateErr)
             /\ committed = <<>>
    /\ committed # <<>>
          => /\ gitSteps = UpdateSteps
             /\ updateErr = "nil"
             /\ committed[1]
                  = ReplaceAll(original, currentGitHash, promotionGitHash)
             /\ fileContent = committed[1]

\* a promotion commit was made, with both refs of the saas file replaced
C20_Witness ==
    /\ committed # <<>>
    /\ original = <<"ref", "h1", "ref", "h1">>
    /\ committed[1] = <<"ref", "h3", "ref", "h3">>
    /\ gitSteps = UpdateSteps

====
